---- MODULE Spec2Model ----
(***************************************************************************)
(* Model of intelliroute_project/core/views.py: the analyze_feedback       *)
(* request handler, its three inference calls, the tag selection and the   *)
(* best-effort Firestore write.                                            *)
(***************************************************************************)
EXTENDS Integers, Sequences, FiniteSets, TLC

\* Longest zero-shot result list the environment returns.
MaxTags == 2

\* ------------------------------------------------------------------------
\* Module-level configuration (views.py lines 24-31)
\* ------------------------------------------------------------------------
CLASSIFIER_LABELS ==
    <<"Urgent", "Billing", "Technical Support", "Bug Report",
      "Feature Request", "Praise", "General Feedback">>

PRIORITY_ORDER ==
    <<"Urgent", "Billing", "Technical Support", "Bug Report",
      "Feature Request", "Praise", "General Feedback">>

SeqRange(s) == {s[i] : i \in 1..Len(s)}

\* {label: index for index, label in enumerate(PRIORITY_ORDER)}: the last
\* index of a label wins, indices start at 0.
PRIORITY_MAP_mut_shift ==
    [label \in SeqRange(PRIORITY_ORDER) |->
        CHOOSE i \in 1..Len(PRIORITY_ORDER) :
            /\ PRIORITY_ORDER[i] = label
            /\ \A j \in 1..Len(PRIORITY_ORDER) : PRIORITY_ORDER[j] = label => j <= i]

PRIORITY_MAP ==
    [label \in SeqRange(PRIORITY_ORDER) |->
        (CHOOSE i \in 1..Len(PRIORITY_ORDER) :
            /\ PRIORITY_ORDER[i] = label
            /\ \A j \in 1..Len(PRIORITY_ORDER) : PRIORITY_ORDER[j] = label => j <= i) - 1]

\* The default of both processed_rank and PRIORITY_MAP.get(..., 100).
DefaultRank == 100
DefaultTag == "General Feedback"
DefaultSummary == "Analysis failed."
DefaultSentiment == "Neutral"
SERVER_TIMESTAMP == "SERVER_TIMESTAMP"

\* PRIORITY_MAP.get(label, 100)
PriorityMapGet(label) ==
    IF label \in DOMAIN PRIORITY_MAP THEN PRIORITY_MAP[label] ELSE DefaultRank

\* ------------------------------------------------------------------------
\* Inbound request: method and JSON payload
\* ------------------------------------------------------------------------
Whitespace == {" ", "\t"}

\* str.strip(): drop leading and trailing whitespace characters.
RECURSIVE LStrip(_)
LStrip(s) ==
    IF s = <<>> THEN <<>>
    ELSE IF Head(s) \in Whitespace THEN LStrip(Tail(s)) ELSE s

RECURSIVE RStrip(_)
RStrip(s) ==
    IF s = <<>> THEN <<>>
    ELSE IF s[Len(s)] \in Whitespace THEN RStrip(SubSeq(s, 1, Len(s) - 1)) ELSE s

Strip(s) == RStrip(LStrip(s))

\* Character sequences the 'text' key may carry.
TextStrings ==
    {<<>>, <<" ">>, <<"\t", " ">>, <<"a">>, <<" ", "a", " ">>}

\* The value found under 'text' in the payload: a string, JSON null, a
\* number, or no such key.
TextFields ==
    {[type |-> "str", chars |-> s] : s \in TextStrings}
        \cup {[type |-> t, chars |-> <<>>] : t \in {"absent", "null", "int"}}

\* request.body: not JSON at all, JSON that is no object, or an object.
Payloads ==
    {[json |-> "invalid", text |-> [type |-> "absent", chars |-> <<>>]],
     [json |-> "list", text |-> [type |-> "absent", chars |-> <<>>]]}
        \cup {[json |-> "dict", text |-> t] : t \in TextFields}

Methods == {"POST", "GET"}

Requests == [method : Methods, body : Payloads]

NoRequest == [method |-> "none", body |-> [json |-> "invalid", text |-> [type |-> "absent", chars |-> <<>>]]]

\* data.get('text', ''): the default applies only when the key is absent.
GetText(body) ==
    IF body.text.type = "absent" THEN [type |-> "str", chars |-> <<>>] ELSE body.text

\* ------------------------------------------------------------------------
\* Responses and the handler's except clauses
\* ------------------------------------------------------------------------
ErrorResponse(msg, status) == [status |-> status, data |-> [error |-> msg]]

\* JsonResponse(response_data_for_json): status 200.
OkResponse(record) == [status |-> 200, data |-> record]

\* Exceptions that reach the handler's outer try.
JSONDecodeError == [type |-> "JSONDecodeError", status |-> 0]
HTTPError(s) == [type |-> "HTTPError", status |-> s]
OtherError == [type |-> "Exception", status |-> 0]

\* except json.JSONDecodeError / requests.exceptions.HTTPError / Exception
HandleException(exc) ==
    CASE exc.type = "JSONDecodeError" ->
            ErrorResponse("Invalid JSON in request body", 400)
      [] exc.type = "HTTPError" ->
            ErrorResponse("Hugging Face API Error", exc.status)
      [] OTHER ->
            ErrorResponse("An unexpected error occurred", 500)

\* `not text_input.strip()`
IsBlank_mut_nostrip(chars) == chars = <<>>

IsBlank(chars) == Strip(chars) = <<>>

\* Lines 88-95: the method check, json.loads, data.get and the blank check.
\* A payload that is no object, or a 'text' that is no string, has no
\* .get / .strip and raises AttributeError.
ValidateRequest_mut_nomethod(req) ==
    IF req.body.json = "invalid"
    THEN [proceed |-> FALSE, response |-> HandleException(JSONDecodeError)]
    ELSE IF req.body.json # "dict" \/ GetText(req.body).type # "str"
    THEN [proceed |-> FALSE, response |-> HandleException(OtherError)]
    ELSE IF IsBlank(GetText(req.body).chars)
    THEN [proceed |-> FALSE, response |-> ErrorResponse("Text input cannot be empty", 400)]
    ELSE [proceed |-> TRUE, response |-> ErrorResponse("", 0)]

ValidateRequest(req) ==
    IF req.method # "POST"
    THEN [proceed |-> FALSE, response |-> ErrorResponse("Only POST requests are allowed", 405)]
    ELSE IF req.body.json = "invalid"
    THEN [proceed |-> FALSE, response |-> HandleException(JSONDecodeError)]
    ELSE IF req.body.json # "dict" \/ GetText(req.body).type # "str"
    THEN [proceed |-> FALSE, response |-> HandleException(OtherError)]
    ELSE IF IsBlank(GetText(req.body).chars)
    THEN [proceed |-> FALSE, response |-> ErrorResponse("Text input cannot be empty", 400)]
    ELSE [proceed |-> TRUE, response |-> ErrorResponse("", 0)]

\* ------------------------------------------------------------------------
\* What the external capabilities can hand back
\* ------------------------------------------------------------------------
\* client.summarization: an output object with summary_text, an object
\* without that attribute, or a falsy value.
SummaryResults ==
    {[type |-> "output", summary_text |-> "A short summary"],
     [type |-> "nofield", summary_text |-> ""],
     [type |-> "none", summary_text |-> ""]}

NoSummary == [type |-> "unset", summary_text |-> ""]

\* Status codes of a failed inference-client call.
ClientErrorStatuses == {503}

\* client.text_classification: a list of (label, score) elements, an empty
\* list, None, or a value that is no list.
SentimentLists ==
    {<<[label |-> "POSITIVE", score |-> 2]>>,
     <<[label |-> "NEGATIVE", score |-> 1]>>,
     <<[label |-> "POSITIVE", score |-> 1], [label |-> "NEGATIVE", score |-> 2]>>,
     <<[label |-> "NEGATIVE", score |-> 2], [label |-> "POSITIVE", score |-> 2]>>}

SentimentResults ==
    {[type |-> "list", items |-> l] : l \in SentimentLists \cup {<<>>}}
        \cup {[type |-> t, items |-> <<>>] : t \in {"none", "other"}}

NoSentiment == [type |-> "unset", items |-> <<>>]

\* Zero-shot: entries of the returned JSON list.
NoLabel == "<no label>"
TagLabels == {"Billing", "General Feedback", "Other"}
Scores == {0, 1}

NonDictEntry == [isDict |-> FALSE, label |-> NoLabel, hasScore |-> FALSE, score |-> 0]

TagEntries ==
    {[isDict |-> TRUE, label |-> l, hasScore |-> TRUE, score |-> s] :
        l \in TagLabels \cup {NoLabel}, s \in Scores}
      \cup {[isDict |-> TRUE, label |-> l, hasScore |-> FALSE, score |-> 0] :
        l \in TagLabels \cup {NoLabel}}
      \cup {NonDictEntry}

TagLists == UNION {[1..n -> TagEntries] : n \in 0..MaxTags}

\* response.json(): a list, a JSON object, or null.
TagResults ==
    {[type |-> "list", items |-> l] : l \in TagLists}
        \cup {[type |-> t, items |-> <<>>] : t \in {"dict", "null"}}

NoTags == [type |-> "unset", items |-> <<>>]

\* HTTP statuses the zero-shot endpoint answers with.
ZeroShotStatuses == {200, 304, 404, 503}

\* response.raise_for_status(): HTTPError for 4xx and 5xx only.
RaisesForStatus_mut_5xx(status) == status >= 500 /\ status < 600

RaisesForStatus(status) == status >= 400 /\ status < 600

\* ------------------------------------------------------------------------
\* Result processing (lines 135-179)
\* ------------------------------------------------------------------------
\* Lines 138-140: the fallback unless the object is truthy and has the field.
ProcessSummary_mut_nocheck(summary) == summary.summary_text

ProcessSummary(summary) ==
    IF summary.type = "output" THEN summary.summary_text ELSE DefaultSummary

\* str.title() on the labels the sentiment model emits.
Title(label) ==
    CASE label = "POSITIVE" -> "Positive"
      [] label = "NEGATIVE" -> "Negative"
      [] OTHER -> label

\* max(sentiment, key=lambda x: x.score): the first element with the
\* greatest score.
MaxByScore(items) ==
    items[CHOOSE i \in 1..Len(items) :
            /\ \A j \in 1..Len(items) : items[j].score <= items[i].score
            /\ \A j \in 1..(i - 1) : items[j].score < items[i].score]

\* Lines 143-146.
ProcessSentiment(sentiment) ==
    IF sentiment.type = "list" /\ Len(sentiment.items) > 0
    THEN Title(MaxByScore(sentiment.items).label)
    ELSE DefaultSentiment

\* x.get('score', 0)
ScoreKey(x) == IF x.hasScore THEN x.score ELSE 0

\* One step of a stable descending sort: x goes behind every element whose
\* key is at least its own.
InsertDesc_mut_unstable(sorted, x) ==
    LET n == Cardinality({i \in 1..Len(sorted) : ScoreKey(sorted[i]) > ScoreKey(x)})
    IN  SubSeq(sorted, 1, n) \o <<x>> \o SubSeq(sorted, n + 1, Len(sorted))

InsertDesc(sorted, x) ==
    LET n == Cardinality({i \in 1..Len(sorted) : ScoreKey(sorted[i]) >= ScoreKey(x)})
    IN  SubSeq(sorted, 1, n) \o <<x>> \o SubSeq(sorted, n + 1, Len(sorted))

\* tags.sort(key=lambda x: x.get('score', 0), reverse=True): list.sort is
\* stable, also under reverse=True.
RECURSIVE SortFrom(_, _)
SortFrom(sorted, rest) ==
    IF rest = <<>> THEN sorted
    ELSE SortFrom(InsertDesc(sorted, Head(rest)), Tail(rest))

SortByScoreDesc(items) == SortFrom(<<>>, items)

\* Line 153: `tags and isinstance(tags, list) and len(tags) > 0 and
\* isinstance(tags[0], dict)`.
TagsGuard(tags) ==
    /\ tags.type = "list"
    /\ Len(tags.items) > 0
    /\ tags.items[1].isDict

\* Lines 149-163.  Inside the guard the sort key calls .get on every entry,
\* so an entry that is no dict raises AttributeError.
SelectTag(tags) ==
    IF ~TagsGuard(tags)
    THEN [raised |-> FALSE, tags |-> tags, tag |-> DefaultTag, rank |-> DefaultRank]
    ELSE IF \E i \in 1..Len(tags.items) : ~tags.items[i].isDict
    THEN [raised |-> TRUE, tags |-> tags, tag |-> DefaultTag, rank |-> DefaultRank]
    ELSE LET sorted == SortByScoreDesc(tags.items)
             top_tag == sorted[1].label
         IN  IF top_tag # NoLabel
             THEN [raised |-> FALSE, tags |-> [tags EXCEPT !.items = sorted],
                   tag |-> top_tag, rank |-> PriorityMapGet(top_tag)]
             ELSE [raised |-> FALSE, tags |-> [tags EXCEPT !.items = sorted],
                   tag |-> DefaultTag, rank |-> DefaultRank]

\* Lines 166-174.
BuildResponseData(summary, sentiment, tag, rank) ==
    [summary |-> summary, sentiment |-> sentiment, tags |-> <<tag>>,
     priority_rank |-> rank, timestamp |-> SERVER_TIMESTAMP]

\* del d[key]
DelKey(d, key) == [k \in (DOMAIN d) \ {key} |-> d[k]]

\* Lines 178-179: a shallow copy loses the timestamp, the original keeps it.
StripTimestamp_mut_alias(response_data) ==
    [stored |-> DelKey(response_data, "timestamp"),
     for_json |-> DelKey(response_data, "timestamp")]

StripTimestamp(response_data) ==
    [stored |-> response_data,
     for_json |-> DelKey(response_data, "timestamp")]

NoRecord == [unset |-> TRUE]

\* ------------------------------------------------------------------------
\* State
\* ------------------------------------------------------------------------
VARIABLES
    pc,                     \* position of the process / the handler
    db,                     \* module-level Firestore handle: "None" or "client"
    request,                \* the inbound request
    text_input,             \* data.get('text', '')
    summary,                \* what client.summarization returned
    sentiment,              \* what client.text_classification returned
    zs_status,              \* HTTP status of the zero-shot response (0: none)
    zs_returned,            \* response.json() as returned, before the sort
    tags,                   \* the local `tags`, sorted in place
    response_data,          \* the record handed to Firestore
    response_data_for_json, \* the record handed to JsonResponse
    exc,                    \* the exception that left the try body, if any
    raised_by,              \* the step that raised it
    store,                  \* documents added to the tickets collection
    save_outcome,           \* "none", "skipped", "written" or "failed"
    calls,                  \* outbound calls, in the order they were issued
    responses               \* responses returned to the caller

vars ==
    <<pc, db, request, text_input, summary, sentiment, zs_status, zs_returned,
      tags, response_data, response_data_for_json, exc, raised_by, store,
      save_outcome, calls, responses>>

NoExc == [type |-> "none", status |-> 0]

Init ==
    /\ pc = "boot"
    /\ db = "None"
    /\ request = NoRequest
    /\ text_input = <<>>
    /\ summary = NoSummary
    /\ sentiment = NoSentiment
    /\ zs_status = 0
    /\ zs_returned = NoTags
    /\ tags = NoTags
    /\ response_data = NoRecord
    /\ response_data_for_json = NoRecord
    /\ exc = NoExc
    /\ raised_by = "none"
    /\ store = <<>>
    /\ save_outcome = "none"
    /\ calls = <<>>
    /\ responses = <<>>

\* Lines 35-57: db stays None unless the Admin SDK initialises, or reports
\* (ValueError) that it already was.
FirebaseSetup ==
    /\ pc = "boot"
    /\ \E outcome \in {"initialized", "already_initialized", "error"} :
          db' = IF outcome = "error" THEN "None" ELSE "client"
    /\ pc' = "idle"
    /\ UNCHANGED <<request, text_input, summary, sentiment, zs_status,
                   zs_returned, tags, response_data, response_data_for_json,
                   exc, raised_by, store, save_outcome, calls, responses>>

\* A request arrives at api/analyze/.
Receive ==
    /\ pc = "idle"
    /\ \E r \in Requests : request' = r
    /\ pc' = "received"
    /\ UNCHANGED <<db, text_input, summary, sentiment, zs_status, zs_returned,
                   tags, response_data, response_data_for_json, exc, raised_by,
                   store, save_outcome, calls, responses>>

\* The try body ends with an exception: the matching except clause answers.
Fail_mut_fallthrough(e, step) ==
    /\ exc' = e
    /\ raised_by' = step
    /\ responses' = Append(responses, HandleException(e))
    /\ pc' = "save"

Fail(e, step) ==
    /\ exc' = e
    /\ raised_by' = step
    /\ responses' = Append(responses, HandleException(e))
    /\ pc' = "done"

\* Lines 88-101.
CheckRequest ==
    /\ pc = "received"
    /\ LET v == ValidateRequest(request)
       IN  IF v.proceed
           THEN /\ text_input' = GetText(request.body).chars
                /\ pc' = "summarization"
                /\ UNCHANGED responses
           ELSE /\ responses' = Append(responses, v.response)
                /\ pc' = "done"
                /\ UNCHANGED text_input
    /\ UNCHANGED <<db, request, summary, sentiment, zs_status, zs_returned,
                   tags, response_data, response_data_for_json, exc, raised_by,
                   store, save_outcome, calls>>

\* What a failing inference-client call raises: an HTTP error that is a
\* requests HTTPError, or any other exception.
ClientExceptions == {HTTPError(s) : s \in ClientErrorStatuses} \cup {OtherError}

\* Lines 105-108.
CallSummarization ==
    /\ pc = "summarization"
    /\ calls' = Append(calls, "summarization")
    /\ \/ /\ \E r \in SummaryResults : summary' = r
          /\ pc' = "sentiment"
          /\ UNCHANGED <<exc, raised_by, responses>>
       \/ /\ \E e \in ClientExceptions : Fail(e, "summarization")
          /\ UNCHANGED summary
    /\ UNCHANGED <<db, request, text_input, sentiment, zs_status, zs_returned,
                   tags, response_data, response_data_for_json, store,
                   save_outcome>>

\* Lines 111-114.
CallSentiment ==
    /\ pc = "sentiment"
    /\ calls' = Append(calls, "sentiment")
    /\ \/ /\ \E r \in SentimentResults : sentiment' = r
          /\ pc' = "zero_shot"
          /\ UNCHANGED <<exc, raised_by, responses>>
       \/ /\ \E e \in ClientExceptions : Fail(e, "sentiment")
          /\ UNCHANGED sentiment
    /\ UNCHANGED <<db, request, text_input, summary, zs_status, zs_returned,
                   tags, response_data, response_data_for_json, store,
                   save_outcome>>

\* Lines 135-179, once query() has returned `result`.
ProcessResults(result) ==
    LET sel == SelectTag(result)
        record == BuildResponseData(ProcessSummary(summary),
                                    ProcessSentiment(sentiment),
                                    sel.tag, sel.rank)
        split == StripTimestamp(record)
    IN  IF sel.raised
        THEN /\ Fail(OtherError, "select_tag")
             /\ UNCHANGED <<tags, response_data, response_data_for_json>>
        ELSE /\ tags' = sel.tags
             /\ response_data' = split.stored
             /\ response_data_for_json' = split.for_json
             /\ pc' = "save"
             /\ UNCHANGED <<exc, raised_by, responses>>

\* Lines 116-179: requests.post, raise_for_status, response.json(), then the
\* processing of the three results.
CallZeroShot ==
    /\ pc = "zero_shot"
    /\ calls' = Append(calls, "zero_shot")
    /\ \/ \* no HTTP response at all (connection error, timeout)
          /\ Fail(OtherError, "zero_shot")
          /\ UNCHANGED <<zs_status, zs_returned, tags, response_data,
                         response_data_for_json>>
       \/ \E s \in ZeroShotStatuses :
            /\ zs_status' = s
            /\ IF RaisesForStatus(s)
               THEN /\ Fail(HTTPError(s), "zero_shot")
                    /\ UNCHANGED <<zs_returned, tags, response_data,
                                   response_data_for_json>>
               ELSE \/ \* the body is no JSON
                       /\ Fail(JSONDecodeError, "zero_shot")
                       /\ UNCHANGED <<zs_returned, tags, response_data,
                                      response_data_for_json>>
                    \/ \E result \in TagResults :
                         /\ zs_returned' = result
                         /\ ProcessResults(result)
    /\ UNCHANGED <<db, request, text_input, summary, sentiment, store,
                   save_outcome>>

\* tickets_ref.add(response_data) inside `try ... except Exception: pass`.
FirestoreAdd_mut_propagate(ok) ==
    IF ok
    THEN [store |-> Append(store, response_data), outcome |-> "written",
          response |-> OkResponse(response_data_for_json)]
    ELSE [store |-> store, outcome |-> "failed",
          response |-> HandleException(OtherError)]

FirestoreAdd(ok) ==
    IF ok
    THEN [store |-> Append(store, response_data), outcome |-> "written",
          response |-> OkResponse(response_data_for_json)]
    ELSE [store |-> store, outcome |-> "failed",
          response |-> OkResponse(response_data_for_json)]

\* Lines 181-193.
SaveToFirestore ==
    /\ pc = "save"
    /\ IF db = "None"
       THEN /\ save_outcome' = "skipped"
            /\ responses' = Append(responses, OkResponse(response_data_for_json))
            /\ UNCHANGED <<store, calls>>
       ELSE /\ calls' = Append(calls, "firestore_add")
            /\ \E ok \in BOOLEAN :
                 LET r == FirestoreAdd(ok)
                 IN  /\ store' = r.store
                     /\ save_outcome' = r.outcome
                     /\ responses' = Append(responses, r.response)
    /\ pc' = "done"
    /\ UNCHANGED <<db, request, text_input, summary, sentiment, zs_status,
                   zs_returned, tags, response_data, response_data_for_json,
                   exc, raised_by>>

Next ==
    \/ FirebaseSetup
    \/ Receive
    \/ CheckRequest
    \/ CallSummarization
    \/ CallSentiment
    \/ CallZeroShot
    \/ SaveToFirestore

Spec == Init /\ [][Next]_vars

\* ------------------------------------------------------------------------
\* Vocabulary of the properties
\* ------------------------------------------------------------------------
Done == pc = "done"

Answered(status) == Done /\ Len(responses) = 1 /\ responses[1].status = status

RecordKeys == {"summary", "sentiment", "tags", "priority_rank"}

\* The rank the fixed order gives a label: its 0-based position, 100 outside.
RankInOrder(label) ==
    IF \E k \in 1..Len(PRIORITY_ORDER) : PRIORITY_ORDER[k] = label
    THEN (CHOOSE k \in 1..Len(PRIORITY_ORDER) : PRIORITY_ORDER[k] = label) - 1
    ELSE 100

CandidateScore(c) == IF c.hasScore THEN c.score ELSE 0

\* i is the first position holding the greatest score.
FirstMaximum(items, i) ==
    /\ \A j \in 1..Len(items) : CandidateScore(items[j]) <= CandidateScore(items[i])
    /\ \A j \in 1..(i - 1) : CandidateScore(items[j]) < CandidateScore(items[i])

AssembledRecord == "tags" \in DOMAIN response_data

\* The request carries a 'text' that is empty, missing or whitespace-only.
BlankTextRequest ==
    /\ request.method = "POST"
    /\ request.body.json = "dict"
    /\ \/ request.body.text.type = "absent"
       \/ /\ request.body.text.type = "str"
          /\ \A i \in 1..Len(request.body.text.chars) :
                request.body.text.chars[i] \in Whitespace

\* C1: a POST whose text is empty, missing or whitespace-only is answered
\* with 400 "Text input cannot be empty"; no inference call and no store
\* write is made for it.
C1_BlankTextRejected ==
    BlankTextRequest =>
        /\ calls = <<>>
        /\ store = <<>>
        /\ save_outcome = "none"
        /\ Done => responses = <<ErrorResponse("Text input cannot be empty", 400)>>
        /\ pc \in {"received", "done"}

C1_Witness ==
    /\ Done
    /\ request.method = "POST"
    /\ request.body.json = "dict"
    /\ request.body.text = [type |-> "str", chars |-> <<"\t", " ">>]
    /\ Answered(400)

\* C2 as stated: any non-2xx zero-shot status s fails the request with
\* status s and nothing is written.
C2_Original ==
    (Done /\ zs_status # 0 /\ ~(zs_status \in 200..299)) =>
        /\ Answered(zs_status)
        /\ store = <<>>

\* C2 amended: a 4xx or 5xx zero-shot status s fails the request with an
\* upstream-error response of exactly status s; the summary and sentiment
\* already obtained appear nowhere in it and nothing is written to the store.
C2_UpstreamErrorStatus ==
    (zs_status >= 400 /\ zs_status <= 599) =>
        /\ Done
        /\ responses = <<ErrorResponse("Hugging Face API Error", zs_status)>>
        /\ ~AssembledRecord
        /\ response_data_for_json = NoRecord
        /\ store = <<>>
        /\ save_outcome = "none"
        /\ \A i \in 1..Len(calls) : calls[i] # "firestore_add"

C2_Witness ==
    /\ Answered(404)
    /\ zs_status = 404
    /\ summary.type = "output"
    /\ sentiment.type = "list"
    /\ calls = <<"summarization", "sentiment", "zero_shot">>

LaterStepRaised == raised_by \in {"sentiment", "zero_shot", "select_tag"}

SummaryFallbackServed ==
    /\ Answered(200)
    /\ RecordKeys \subseteq DOMAIN responses[1].data
    /\ responses[1].data.summary = "Analysis failed."
    /\ SubSeq(calls, 1, 3) = <<"summarization", "sentiment", "zero_shot">>

C4_BestEffortPersistence ==
    /\ AssembledRecord => pc \in {"save", "done"} /\ raised_by = "none"
    /\ (Done /\ AssembledRecord) =>
          /\ save_outcome \in {"written", "failed", "skipped"}
          /\ save_outcome = "skipped" <=> db = "None"
          /\ Len(responses) = 1
          /\ responses[1].status = 200
          /\ DOMAIN responses[1].data = RecordKeys
          /\ \A k \in RecordKeys : responses[1].data[k] = response_data[k]

C4_Witness ==
    /\ Answered(200)
    /\ save_outcome = "failed"
    /\ db = "client"
    /\ store = <<>>

WellFormedCandidates(t) ==
    /\ t.type = "list"
    /\ Len(t.items) > 0
    /\ \A i \in 1..Len(t.items) : t.items[i].isDict /\ t.items[i].label # NoLabel

\* C5: for a non-empty list of well-formed candidates the selected tag is
\* the label of the first candidate holding the greatest score (a missing
\* score counting as 0) and priority_rank is that label's position in the
\* fixed order, or 100 for a label outside it.
C5_TagSelection ==
    WellFormedCandidates(zs_returned) =>
        /\ AssembledRecord
        /\ \E i \in 1..Len(zs_returned.items) :
              /\ FirstMaximum(zs_returned.items, i)
              /\ response_data.tags = <<zs_returned.items[i].label>>
              /\ response_data.priority_rank = RankInOrder(zs_returned.items[i].label)

C5_Witness ==
    /\ Answered(200)
    /\ zs_returned.type = "list"
    /\ Len(zs_returned.items) = 2
    /\ zs_returned.items[1] = [isDict |-> TRUE, label |-> "Other", hasScore |-> FALSE, score |-> 0]
    /\ zs_returned.items[2] = [isDict |-> TRUE, label |-> "Billing", hasScore |-> TRUE, score |-> 0]
    /\ responses[1].data.tags = <<"Other">>
    /\ responses[1].data.priority_rank = 100

\* C6: whatever the zero-shot call returned (empty, no list, entries that
\* are no dicts at any position, entries without score or label), the
\* selector raises nothing and the request completes with a 200 record.
C6_SelectorNeverFails ==
    zs_returned.type # "unset" =>
        /\ raised_by # "select_tag"
        /\ AssembledRecord
        /\ Done => Answered(200)

C6_FailingInput ==
    /\ zs_returned.type = "list"
    /\ Len(zs_returned.items) = 2
    /\ zs_returned.items[1].isDict
    /\ ~zs_returned.items[2].isDict
    /\ Answered(500)

\* No candidate of the zero-shot result can be selected: the guard of the
\* selection fails, or the first greatest-score entry carries no label.
NoUsableCandidate(t) ==
    \/ ~(t.type = "list" /\ Len(t.items) > 0 /\ t.items[1].isDict)
    \/ \E i \in 1..Len(t.items) : FirstMaximum(t.items, i) /\ t.items[i].label = NoLabel

RankMatchesLabel(r) ==
    /\ Len(r.tags) = 1
    /\ r.priority_rank = RankInOrder(r.tags[1])

RankMatchesLabelOrDefault(r) ==
    /\ Len(r.tags) = 1
    /\ IF NoUsableCandidate(zs_returned)
       THEN r.tags = <<"General Feedback">> /\ r.priority_rank = 100
       ELSE /\ r.priority_rank = RankInOrder(r.tags[1])
            /\ r.priority_rank = 100 <=> r.tags[1] \notin SeqRange(PRIORITY_ORDER)
            /\ r.priority_rank # 100 =>
                  /\ r.priority_rank \in 0..6
                  /\ PRIORITY_ORDER[r.priority_rank + 1] = r.tags[1]

\* C7 as stated: every record returned or persisted pairs its one tag with
\* that tag's rank in the fixed order, 100 only for a tag outside it.
C7_Original ==
    /\ AssembledRecord => RankMatchesLabel(response_data)
    /\ \A i \in 1..Len(store) : RankMatchesLabel(store[i])
    /\ Answered(200) => RankMatchesLabel(responses[1].data)

\* C7 amended: every record returned or persisted holds exactly one tag;
\* when a candidate was selected, priority_rank is that tag's 0-based
\* position in PRIORITY_ORDER (0..6, distinct tags having distinct ranks)
\* and 100 only for a tag outside the order; when no candidate was usable
\* the record is the default pair "General Feedback" with rank 100.
C7_RankOfSelectedLabel ==
    /\ AssembledRecord => RankMatchesLabelOrDefault(response_data)
    /\ \A i \in 1..Len(store) : RankMatchesLabelOrDefault(store[i])
    /\ Answered(200) => RankMatchesLabelOrDefault(responses[1].data)
    /\ \A a, b \in SeqRange(PRIORITY_ORDER) :
          a # b => PriorityMapGet(a) # PriorityMapGet(b)

C7_Witness ==
    /\ Answered(200)
    /\ save_outcome = "written"
    /\ ~NoUsableCandidate(zs_returned)
    /\ store[1].tags = <<"General Feedback">>
    /\ store[1].priority_rank = 6
    /\ responses[1].data.priority_rank = 6

InvalidInput == BlankTextRequest

MalformedRequest == request.method = "POST" /\ request.body.json = "invalid"

ZeroShotCallFailed == raised_by = "zero_shot"

\* Every cause of a response that is not 200.
FatalCause ==
    \/ request.method # "POST"
    \/ InvalidInput
    \/ MalformedRequest
    \/ request.body.json = "list"
    \/ request.body.text.type \in {"null", "int"}
    \/ raised_by \in {"summarization", "sentiment", "zero_shot"}
    \/ /\ zs_returned.type = "list"
       /\ Len(zs_returned.items) > 0
       /\ zs_returned.items[1].isDict
       /\ \E i \in 1..Len(zs_returned.items) : ~zs_returned.items[i].isDict

C9_ReturnedAndStoredAgree ==
    AssembledRecord =>
        /\ DOMAIN response_data = RecordKeys \cup {"timestamp"}
        /\ response_data.timestamp = SERVER_TIMESTAMP
        /\ DOMAIN response_data_for_json = RecordKeys
        /\ \A k \in RecordKeys : response_data_for_json[k] = response_data[k]
        /\ \A i \in 1..Len(store) :
              /\ DOMAIN store[i] = RecordKeys \cup {"timestamp"}
              /\ store[i].timestamp = SERVER_TIMESTAMP
              /\ \A k \in RecordKeys : store[i][k] = response_data_for_json[k]
        /\ Done =>
              /\ Len(responses) = 1
              /\ DOMAIN responses[1].data = RecordKeys
              /\ \A k \in RecordKeys : responses[1].data[k] = response_data[k]

C9_Witness ==
    /\ Answered(200)
    /\ save_outcome = "written"
    /\ Len(store) = 1
    /\ "timestamp" \in DOMAIN store[1]
    /\ "timestamp" \notin DOMAIN responses[1].data

CallOrder == <<"summarization", "sentiment", "zero_shot", "firestore_add">>

\* C10: the calls are issued in the order summarization, sentiment,
\* zero-shot, each after the previous one returned; the store write is
\* attempted at most once and only after all three returned without a
\* failure; exactly one response is emitted, with the write attempt behind
\* it, or right after the first fatal failure with no later call or write.
C10_StrictOrder ==
    /\ Len(calls) <= Len(CallOrder)
    /\ calls = SubSeq(CallOrder, 1, Len(calls))
    /\ Len(calls) >= 2 => summary.type # "unset"
    /\ Len(calls) >= 3 => sentiment.type # "unset"
    /\ Len(calls) = 4 =>
          /\ zs_returned.type # "unset"
          /\ raised_by = "none"
          /\ AssembledRecord
          /\ save_outcome \in {"written", "failed"}
    /\ Len(store) <= 1
    /\ Len(store) = 1 <=> save_outcome = "written"
    /\ Len(responses) <= 1
    /\ Len(responses) = 1 <=> Done
    /\ (Done /\ raised_by = "none" /\ Len(calls) > 0) =>
          /\ save_outcome # "none"
          /\ responses[1].status = 200
    /\ raised_by # "none" =>
          /\ Done
          /\ save_outcome = "none"
          /\ store = <<>>
          /\ Len(calls) = CASE raised_by = "summarization" -> 1
                            [] raised_by = "sentiment" -> 2
                            [] OTHER -> 3

C10_Witness ==
    /\ Done
    /\ raised_by = "sentiment"
    /\ calls = <<"summarization", "sentiment">>
    /\ summary.type = "output"
    /\ Len(responses) = 1

====
